---- MODULE Spec2Model ----
(***************************************************************************)
(* NationCraft (src/main.py): the nation statistics, the event catalog,    *)
(* the decision handler with its deferred draw of the next event, the      *)
(* game-over screen, and the SQLite tables behind save/load, the           *)
(* leaderboard and the event catalog.                                      *)
(*                                                                         *)
(* The program is a Tk application: every action below is one event        *)
(* handler (a button command, a timer callback, or the closing of a        *)
(* window), run to completion by the single-threaded event loop.           *)
(***************************************************************************)
EXTENDS Integers, Sequences, FiniteSets, TLC

(***************************************************************************)
(* Python values.  A dict keeps its keys in insertion order, and iteration *)
(* (.items()) follows that order: keys is the order, val the mapping.      *)
(***************************************************************************)
\* None, told apart from every dict and row.
None == [none |-> TRUE]

Range(s) == {s[i] : i \in 1..Len(s)}

Dict(ks, vs) ==
  [keys |-> ks,
   val  |-> [k \in Range(ks) |-> vs[CHOOSE i \in 1..Len(ks) : ks[i] = k]]]

HasKey(d, k) == k \in Range(d.keys)

\* d[k] = v: an existing key keeps its place, a new key goes to the end.
DictSet(d, k, v) ==
  IF HasKey(d, k)
  THEN [d EXCEPT !.val[k] = v]
  ELSE [keys |-> Append(d.keys, k),
        val  |-> [x \in Range(d.keys) \cup {k} |-> IF x = k THEN v ELSE d.val[x]]]

Max(a, b) == IF a >= b THEN a ELSE b
Min(a, b) == IF a <= b THEN a ELSE b

\* json.dumps / json.loads of the options list: the column holds text, the
\* program holds the parsed list.
\* list[i] of Python: i counts from 0, a negative i counts from the end, and
\* an i outside -len..len-1 raises IndexError.
raises_IndexError(list, i) == i >= Len(list) \/ i < -Len(list)
list_item(list, i) == IF i >= 0 THEN list[i + 1] ELSE list[Len(list) + i + 1]

\* None['options'] raises TypeError.
raises_TypeError(value) == value = None

json_dumps(v) == [json |-> v]
json_loads(t) == t.json

(***************************************************************************)
(* Program constants.                                                      *)
(***************************************************************************)
START_YEAR == 2024
START_STAT == 50
STAT_MIN == 0
STAT_MAX == 100
TURNS_PER_YEAR == 4

\* The six statistics, in the order of the dict literal that creates them.
StatNames ==
  <<"economy", "happiness", "stability", "relations", "military_power", "environment">>

InitialStats ==
  Dict(StatNames, <<START_STAT, START_STAT, START_STAT, START_STAT, START_STAT, START_STAT>>)

DEFAULT_PLAYER == "President"
DEFAULT_COUNTRY == "United Republic"

\* check_game_over's causes dict (the texts shortened to their headline).
causes ==
  [economy        |-> "Economic Collapse!",
   happiness      |-> "Revolution!",
   stability      |-> "Military Coup!",
   relations      |-> "International Isolation!",
   military_power |-> "Invasion!",
   environment    |-> "Environmental Catastrophe!"]

Option(text, ks, vs, reason) ==
  [text |-> text, effects |-> Dict(ks, vs), reason |-> reason]

Event(category, title, description, options) ==
  [category |-> category, title |-> title, description |-> description,
   options |-> options]

\* populate_default_events' default_events list.  Titles, option texts, effect
\* keys (in their written order) and deltas are the source's; descriptions and
\* reasons are shortened to their opening words.
default_events == <<
  Event("economy", "Auto Industry Strike", "A major strike has broken out", <<
    Option("Approve higher wages immediately",
           <<"economy", "happiness", "stability">>, <<-10, 20, 5>>, "Higher wages strain the budget"),
    Option("Reject demands and deploy police",
           <<"economy", "happiness", "stability">>, <<5, -15, -10>>, "Forceful suppression saves money"),
    Option("Negotiate for partial wage increase",
           <<"economy", "happiness", "stability">>, <<-5, 10, 5>>, "Compromise shows leadership"),
    Option("Offer alternative benefits package",
           <<"economy", "happiness", "relations">>, <<-3, 8, 3>>, "Creative solutions cost less") >>),
  Event("diplomacy", "Border Dispute Escalation", "A neighboring country has moved troops", <<
    Option("Deploy military to the border",
           <<"military_power", "relations", "economy">>, <<10, -15, -8>>, "Military posturing shows strength"),
    Option("Request UN mediation",
           <<"relations", "stability", "economy">>, <<8, 5, -3>>, "Diplomatic approach enhances standing"),
    Option("Offer territorial compromise",
           <<"relations", "happiness", "stability">>, <<15, -10, -5>>, "Peaceful resolution improves ties"),
    Option("Impose targeted economic sanctions",
           <<"economy", "relations", "stability">>, <<-5, -8, 3>>, "Economic pressure shows resolve") >>),
  Event("environment", "Industrial Pollution Crisis", "Several major factories have been releasing", <<
    Option("Immediately shut down polluting factories",
           <<"environment", "economy", "happiness">>, <<20, -15, -8>>, "Decisive environmental action"),
    Option("Implement gradual emission standards",
           <<"environment", "economy", "happiness">>, <<8, -5, 5>>, "Balanced approach gives time"),
    Option("Ignore environmental concerns",
           <<"economy", "environment", "happiness", "stability">>, <<5, -10, -12, -8>>, "Prioritizing industry"),
    Option("Invest heavily in green technology subsidies",
           <<"environment", "economy", "relations">>, <<15, -10, 8>>, "Forward-thinking investment") >>),
  Event("politics", "Government Corruption Scandal", "Investigative journalists have exposed", <<
    Option("Launch comprehensive investigation",
           <<"stability", "happiness", "economy">>, <<15, 10, -5>>, "Transparent accountability restores trust"),
    Option("Attempt to suppress the story",
           <<"stability", "happiness", "economy">>, <<-15, -20, 5>>, "Cover-up attempts backfire"),
    Option("Quietly remove officials without fanfare",
           <<"stability", "happiness", "economy">>, <<5, -5, 3>>, "Minimal response"),
    Option("Blame opposition and deflect",
           <<"stability", "happiness", "relations">>, <<-8, -10, -5>>, "Political deflection appears defensive") >>),
  Event("military", "Defense Modernization Pressure", "Military leaders warn", <<
    Option("Approve major defense spending increase",
           <<"military_power", "economy", "stability">>, <<15, -12, 8>>, "Strong military deters threats"),
    Option("Maintain current defense budget",
           <<"military_power", "stability", "happiness">>, <<-5, 3, 5>>, "Fiscal responsibility pleases taxpayers"),
    Option("Reduce defense spending for social programs",
           <<"economy", "military_power", "stability">>, <<10, -15, -8>>, "Reallocation helps civilian needs"),
    Option("Seek international defense partnerships",
           <<"military_power", "relations", "economy">>, <<8, -5, 3>>, "Shared defense costs reduce expenses") >>),
  Event("economy", "Economic Recession Warning", "Economic indicators show a recession", <<
    Option("Launch massive stimulus package",
           <<"economy", "happiness", "stability">>, <<15, 10, 5>>, "Government spending jumpstarts activity"),
    Option("Implement austerity measures",
           <<"economy", "happiness", "stability">>, <<-5, -10, -5>>, "Fiscal restraint may worsen conditions"),
    Option("Increase taxes on wealthy individuals",
           <<"economy", "happiness", "stability">>, <<8, -8, -3>>, "Revenue from high earners"),
    Option("Attract foreign investment with incentives",
           <<"economy", "relations", "stability">>, <<12, -3, 3>>, "Foreign capital creates jobs") >>),
  Event("social", "Healthcare System Crisis", "Hospitals are overwhelmed", <<
    Option("Massively increase healthcare funding",
           <<"happiness", "economy", "stability">>, <<15, -10, 8>>, "Investment in healthcare saves lives"),
    Option("Privatize significant portions of healthcare",
           <<"economy", "happiness", "stability">>, <<8, -12, -5>>, "Market solutions may improve efficiency"),
    Option("Implement gradual healthcare reforms",
           <<"happiness", "economy", "stability">>, <<8, -5, 3>>, "Step-by-step improvements"),
    Option("Import healthcare workers and expand medical training",
           <<"happiness", "economy", "relations">>, <<10, -8, 5>>, "Expanding healthcare capacity") >>)
>>

(***************************************************************************)
(* DatabaseManager: the three SQLite tables, each a sequence of rows in    *)
(* rowid order, and the statements run against them.                       *)
(***************************************************************************)
EventRow(e) ==
  [category |-> e.category, title |-> e.title, description |-> e.description,
   options |-> json_dumps(e.options)]

\* INSERT INTO game_events for each of `events`, in order.
RECURSIVE insert_events(_, _)
insert_events(table, events) ==
  IF events = <<>> THEN table
  ELSE insert_events(Append(table, EventRow(Head(events))), Tail(events))

\* populate_default_events without the count check.
populate_default_events_unchecked(table) == insert_events(table, default_events)

\* SELECT COUNT(*) FROM game_events; return if > 0; else insert the defaults.
populate_default_events(table) ==
  IF Len(table) > 0 THEN table ELSE insert_events(table, default_events)

\* get_random_event that falls back on the first default event.
get_random_event_or_default(table) ==
  IF Len(table) = 0
  THEN {[title |-> default_events[1].title,
         description |-> default_events[1].description,
         options |-> default_events[1].options]}
  ELSE {[title |-> r.title, description |-> r.description,
         options |-> json_loads(r.options)] : r \in Range(table)}

\* The statement without ORDER BY RANDOM(): LIMIT 1 gives the first row.
get_random_event_first(table) ==
  IF Len(table) = 0 THEN {None}
  ELSE {[title |-> table[1].title, description |-> table[1].description,
         options |-> json_loads(table[1].options)]}

\* SELECT title, description, options ... ORDER BY RANDOM() LIMIT 1: every
\* value the call can return.
get_random_event(table) ==
  IF Len(table) = 0 THEN {None}
  ELSE {[title |-> r.title, description |-> r.description,
         options |-> json_loads(r.options)] : r \in Range(table)}

\* The system clock in seconds, as CURRENT_TIMESTAMP reads it.
VARIABLE clock

\* A row of game_sessions: the columns of the INSERT, updated_at the second
\* of the statement.
SessionRow(save_name, game_state) ==
  [save_name      |-> save_name,
   country_name   |-> game_state.country_name,
   current_year   |-> game_state.current_year,
   current_turn   |-> game_state.current_turn,
   economy        |-> game_state.stats.val["economy"],
   happiness      |-> game_state.stats.val["happiness"],
   stability      |-> game_state.stats.val["stability"],
   relations      |-> game_state.stats.val["relations"],
   military_power |-> game_state.stats.val["military_power"],
   environment    |-> game_state.stats.val["environment"],
   updated_at     |-> clock]

\* INSERT OR IGNORE: a row with the same save_name stays and nothing is added.
save_game_or_ignore(table, save_name, game_state) ==
  IF \E i \in 1..Len(table) : table[i].save_name = save_name
  THEN table
  ELSE Append(table, SessionRow(save_name, game_state))

\* A plain INSERT into a table whose save_name is not UNIQUE.
save_game_append(table, save_name, game_state) ==
  Append(table, SessionRow(save_name, game_state))

\* A table of one slot: DELETE FROM game_sessions, then the INSERT.
save_game_single_slot(table, save_name, game_state) ==
  <<SessionRow(save_name, game_state)>>

\* An UPDATE without its WHERE clause before the INSERT OR REPLACE: every
\* stored row takes the columns of the state that is saved.
save_game_update_all(table, save_name, game_state) ==
  Append([i \in 1..Len(SelectSeq(table, LAMBDA r : r.save_name # save_name)) |->
            [SessionRow(SelectSeq(table, LAMBDA r : r.save_name # save_name)[i].save_name,
                        game_state)
               EXCEPT !.updated_at =
                 SelectSeq(table, LAMBDA r : r.save_name # save_name)[i].updated_at]],
         SessionRow(save_name, game_state))

\* INSERT OR REPLACE INTO game_sessions: save_name is UNIQUE, so a row with the
\* same save_name is deleted and the new row is inserted (at the end).
save_game(table, save_name, game_state) ==
  Append(SelectSeq(table, LAMBDA r : r.save_name # save_name),
         SessionRow(save_name, game_state))

\* load_game that builds the stats dict from the last column to the first.
load_game_reversed(table, save_name) ==
  LET rows == SelectSeq(table, LAMBDA r : r.save_name = save_name)
  IN  IF rows = <<>> THEN None
      ELSE LET row == rows[1]
           IN  [country_name |-> row.country_name,
                current_year |-> row.current_year,
                current_turn |-> row.current_turn,
                stats |-> Dict(<<"environment", "military_power", "relations",
                                 "stability", "happiness", "economy">>,
                               <<row.environment, row.military_power, row.relations,
                                 row.stability, row.happiness, row.economy>>)]

\* load_game that gives the state of a new game for a name with no row.
load_game_or_new(table, save_name) ==
  LET rows == SelectSeq(table, LAMBDA r : r.save_name = save_name)
  IN  IF rows = <<>>
      THEN [country_name |-> DEFAULT_COUNTRY, current_year |-> START_YEAR,
            current_turn |-> 0, stats |-> InitialStats]
      ELSE LET row == rows[1]
           IN  [country_name |-> row.country_name,
                current_year |-> row.current_year,
                current_turn |-> row.current_turn,
                stats |-> Dict(<<"economy", "happiness", "stability",
                                 "relations", "military_power", "environment">>,
                               <<row.economy, row.happiness, row.stability,
                                 row.relations, row.military_power, row.environment>>)]

\* load_game that reads every column one place early (row[1] .. row[9]).
load_game_shifted(table, save_name) ==
  LET rows == SelectSeq(table, LAMBDA r : r.save_name = save_name)
  IN  IF rows = <<>> THEN None
      ELSE LET row == rows[1]
           IN  [country_name |-> row.save_name,
                current_year |-> row.country_name,
                current_turn |-> row.current_year,
                stats |-> Dict(<<"economy", "happiness", "stability",
                                 "relations", "military_power", "environment">>,
                               <<row.current_turn, row.economy, row.happiness,
                                 row.stability, row.relations, row.military_power>>)]

\* The row of save_name that INSERT OR REPLACE deletes, with its place.
replaced_row(table, save_name) ==
  IF \E i \in 1..Len(table) : table[i].save_name = save_name
  THEN LET i == CHOOSE j \in 1..Len(table) : table[j].save_name = save_name
       IN  [place |-> i, row |-> table[i]]
  ELSE None

\* SELECT * FROM game_sessions WHERE save_name = ?; fetchone().
load_game(table, save_name) ==
  LET rows == SelectSeq(table, LAMBDA r : r.save_name = save_name)
  IN  IF rows = <<>> THEN None
      ELSE LET row == rows[1]
           IN  [country_name |-> row.country_name,
                current_year |-> row.current_year,
                current_turn |-> row.current_turn,
                stats |-> Dict(<<"economy", "happiness", "stability",
                                 "relations", "military_power", "environment">>,
                               <<row.economy, row.happiness, row.stability,
                                 row.relations, row.military_power, row.environment>>)]

\* SELECT save_name, country_name, current_year, updated_at FROM
\* game_sessions ORDER BY updated_at DESC: every value the call can return
\* (SQL leaves the order of rows with the same updated_at unspecified).
get_saved_games(table) ==
  LET n == Len(table)
  IN  {[i \in 1..n |-> <<table[q[i]].save_name, table[q[i]].country_name,
                         table[q[i]].current_year, table[q[i]].updated_at>>] :
         q \in {f \in [1..n -> 1..n] :
                  /\ \A i, j \in 1..n : f[i] = f[j] => i = j
                  /\ \A i \in 1..(n - 1) :
                        table[f[i]].updated_at >= table[f[i + 1]].updated_at}}

\* A row of high_scores: the AUTOINCREMENT id and the nine columns of the
\* INSERT, four of them final stats.
ScoreRow(id, score_data) ==
  [id                |-> id,
   player_name       |-> score_data.player_name,
   country_name      |-> score_data.country_name,
   years_survived    |-> score_data.years_survived,
   turns_survived    |-> score_data.turns_survived,
   final_economy     |-> score_data.final_stats.val["economy"],
   final_happiness   |-> score_data.final_stats.val["happiness"],
   final_stability   |-> score_data.final_stats.val["stability"],
   final_relations   |-> score_data.final_stats.val["relations"],
   cause_of_downfall |-> score_data.cause_of_downfall]

\* An insert that keeps one row per player: the player's earlier row goes.
save_high_score_per_player(table, score_data) ==
  Append(SelectSeq(table, LAMBDA r : r.player_name # score_data.player_name),
         ScoreRow(Len(table) + 1, score_data))

\* INSERT INTO high_scores; no statement deletes a row, so the next id is the
\* number of rows plus one.
save_high_score(table, score_data) ==
  Append(table, ScoreRow(Len(table) + 1, score_data))

\* The six columns that get_leaderboard selects, achieved_at left out (the
\* rows carry no clock).
LeaderRow(r) ==
  [player_name |-> r.player_name, country_name |-> r.country_name,
   years_survived |-> r.years_survived, turns_survived |-> r.turns_survived,
   cause_of_downfall |-> r.cause_of_downfall]

\* ORDER BY years_survived DESC, turns_survived DESC allows row a before row b.
order_by_allows(a, b) ==
  \/ a.years_survived > b.years_survived
  \/ a.years_survived = b.years_survived /\ a.turns_survived >= b.turns_survived

\* The orders in which the statement may return the rows of `table`: SQL
\* leaves the order of rows equal in every ORDER BY term unspecified.
row_orders(table) ==
  LET n == Len(table)
  IN  {q \in [1..n -> 1..n] :
         /\ \A i, j \in 1..n : q[i] = q[j] => i = j
         /\ \A i \in 1..(n - 1) : order_by_allows(table[q[i]], table[q[i + 1]])}

LEADERBOARD_LIMIT == 10

\* ORDER BY years_survived ASC, turns_survived ASC LIMIT ?.
get_leaderboard_ascending(table, limit) ==
  {SubSeq([i \in 1..Len(table) |-> LeaderRow(table[q[Len(table) + 1 - i]])], 1,
          IF limit < 0 THEN Len(table) ELSE Min(limit, Len(table))) :
     q \in row_orders(table)}

\* SELECT ... FROM high_scores ORDER BY ... LIMIT ?: every value the call can
\* return.  SQLite takes a negative LIMIT as no limit.
get_leaderboard(table, limit) ==
  {SubSeq([i \in 1..Len(table) |-> LeaderRow(table[q[i]])], 1,
          IF limit < 0 THEN Len(table) ELSE Min(limit, Len(table))) :
     q \in row_orders(table)}

(***************************************************************************)
(* NationCraftGUI: the two functions on the statistics.                    *)
(***************************************************************************)
\* clamp without its ceiling.
clamp_no_ceiling(value) == Max(STAT_MIN, value)

\* clamp without its floor.
clamp_no_floor(value) == Min(STAT_MAX, value)

clamp(value) == Max(STAT_MIN, Min(STAT_MAX, value))

\* for stat, change in effects.items(): if stat in self.stats: ...
RECURSIVE apply_effects_from(_, _, _)
apply_effects_from(st, effects, i) ==
  IF i > Len(effects.keys) THEN st
  ELSE LET stat   == effects.keys[i]
           change == effects.val[stat]
       IN  apply_effects_from(
             IF HasKey(st, stat)
             THEN DictSet(st, stat, clamp(st.val[stat] + change))
             ELSE st,
             effects, i + 1)

\* apply_effects that pairs the changes with the stats by position, not by
\* name.
apply_effects_by_position(st, effects) ==
  [st EXCEPT !.val =
     [k \in DOMAIN st.val |->
        LET i == CHOOSE j \in 1..Len(st.keys) : st.keys[j] = k
        IN  IF i <= Len(effects.keys)
            THEN clamp(st.val[k] + effects.val[effects.keys[i]])
            ELSE st.val[k]]]

\* apply_effects without the membership test, reading a missing stat as 0:
\* self.stats[stat] = clamp(self.stats.get(stat, 0) + change).
RECURSIVE apply_effects_get_from(_, _, _)
apply_effects_get_from(st, effects, i) ==
  IF i > Len(effects.keys) THEN st
  ELSE LET stat   == effects.keys[i]
           change == effects.val[stat]
       IN  apply_effects_get_from(
             DictSet(st, stat, clamp((IF HasKey(st, stat) THEN st.val[stat] ELSE 0) + change)),
             effects, i + 1)

apply_effects_get(st, effects) == apply_effects_get_from(st, effects, 1)

\* apply_effects that leaves its loop after the first item.
apply_effects_first_item(st, effects) ==
  IF effects.keys = <<>> THEN st
  ELSE LET stat   == effects.keys[1]
           change == effects.val[stat]
       IN  IF HasKey(st, stat)
           THEN DictSet(st, stat, clamp(st.val[stat] + change))
           ELSE st

apply_effects(st, effects) == apply_effects_from(st, effects, 1)

\* for stat, value in self.stats.items(): if value <= 0: return True, causes[stat]
RECURSIVE check_game_over_from(_, _)
check_game_over_from(st, i) ==
  IF i > Len(st.keys) THEN <<FALSE, "">>
  ELSE IF st.val[st.keys[i]] <= 0 THEN <<TRUE, causes[st.keys[i]]>>
       ELSE check_game_over_from(st, i + 1)

\* check_game_over that also ends the game on a stat at its ceiling.
check_game_over_both_ends(st) ==
  LET hit == {i \in 1..Len(st.keys) :
                st.val[st.keys[i]] <= 0 \/ st.val[st.keys[i]] >= STAT_MAX}
  IN  IF hit = {} THEN <<FALSE, "">>
      ELSE <<TRUE, causes[st.keys[CHOOSE i \in hit : \A j \in hit : i <= j]]>>

check_game_over(st) == check_game_over_from(st, 1)

(***************************************************************************)
(* State.                                                                  *)
(***************************************************************************)
VARIABLES
  stats,          \* self.stats
  current_year,   \* self.current_year
  current_turn,   \* self.current_turn
  country_name,   \* self.country_name
  player_name,    \* self.player_name
  current_event,  \* self.current_event
  game_events,    \* table game_events
  game_sessions,  \* table game_sessions
  high_scores,    \* table high_scores
  screen,         \* what the root window shows: "menu" or "game"
  grab,           \* the toplevel window holding the pointer grab, or "none"
  timers,         \* pending root.after(1000, self.load_next_event) callbacks
  op,             \* the handler that ran last
  phase,          \* NotStarted; AwaitingDecision once a run is started or
                  \* loaded; Terminated once game_over_screen has run for it
  cause,          \* cause passed to the last game_over_screen of this run
  run_scores,     \* records inserted into high_scores for this run
  replaced,       \* the row and its place that the last handler's INSERT OR
                  \* REPLACE deleted, None if it deleted none
  saved,          \* per save name, the game_state dict that this process
                  \* last passed to save_game under it, None if none
  shown,          \* the rows listed in the leaderboard window, <<>> when
                  \* there is no such window
  effects_arg,    \* the dict that a caller of apply_effects other than
                  \* make_decision passes to it, None when there is no such caller
  listed,         \* the rows that the load window lists, a "Load" button
                  \* each, <<>> when there is no such window
  panel,          \* what the event panel of the game screen shows, None when
                  \* there is no panel or nothing in it
  impact,         \* what the impact window opened last shows, None once it
                  \* is destroyed
  applied,        \* an option of the current event has been applied since
                  \* the event was drawn
  started_by,     \* run: the player_name that start_game gave the run in
                  \* progress, handed on by a save and a load; session: per
                  \* save name, that of the run saved under it; None where
                  \* this process has not seen the start
  error           \* what the last handler reported: the text of its error
                  \* message box or error label, or the exception it let
                  \* through to its caller; "" if it reported no error

vars ==
  <<stats, current_year, current_turn, country_name, player_name, current_event,
    game_events, game_sessions, high_scores, screen, grab, timers,
    op, phase, cause, run_scores, replaced, saved, shown, effects_arg, error,
    panel, impact, listed, clock, applied, started_by>>

gui_fields == <<stats, current_year, current_turn, country_name, player_name>>
tables == <<game_events, game_sessions, high_scores>>
history == <<phase, cause, run_scores>>

(***************************************************************************)
(* Bounds of the exploration and the inputs tried.                         *)
(***************************************************************************)
MaxTurn == 4
MaxTimers == 2
MaxScores == 2
MaxClock == 2

PlayerEntries == {""}
CountryEntries == {""}
SaveEntries == {"", "alpha", "beta"}
SaveNames == SaveEntries \ {""}

\* The game_events table found in the database file at startup: the rows of
\* the shipped events numbered `ids` (none for a new file).
StoredEvents(ids) ==
  insert_events(<<>>, SelectSeq(default_events,
                                LAMBDA e : \E i \in ids : default_events[i] = e))

(***************************************************************************)
(* NationCraftGUI.__init__ over the database file `file` (its three tables, *)
(* empty for a new file): init_database creates the missing tables and     *)
(* seeds the events, the fields get their initial values, the main menu is *)
(* shown.                                                                  *)
(***************************************************************************)
InitOver(file) ==
  /\ clock = 0
  /\ game_events = populate_default_events(file.game_events)
  /\ game_sessions = file.game_sessions
  /\ high_scores = file.high_scores
  /\ stats = InitialStats
  /\ effects_arg = None
  /\ current_year = START_YEAR
  /\ current_turn = 0
  /\ country_name = ""
  /\ player_name = ""
  /\ current_event = None
  /\ screen = "menu"
  /\ grab = "none"
  /\ timers = 0
  /\ op = "init"
  /\ phase = "NotStarted"
  /\ cause = ""
  /\ run_scores = 0
  /\ replaced = None
  /\ saved = [n \in SaveNames |-> None]
  /\ shown = <<>>
  /\ error = ""
  /\ panel = None
  /\ impact = None
  /\ listed = <<>>
  /\ applied = FALSE
  /\ started_by = [run |-> None, session |-> [n \in SaveNames |-> None]]

(***************************************************************************)
(* Handlers.                                                               *)
(***************************************************************************)
\* A widget of the root window takes a click only while no toplevel holds the
\* grab; a toplevel's widgets take it while that toplevel holds the grab.
RootClickable == grab = "none"

\* messagebox.showerror("Error", message) with nothing shown.
showerror_swallowed(message) == ""

\* messagebox.showerror("Error", message).
showerror(message) == message

\* The red error_label of the game-over window.
error_label(text) == text

\* The event panel with each option's reason next to its text.
event_panel_with_reasons(event) ==
  [title |-> event.title, description |-> event.description,
   options |-> [i \in 1..Len(event.options) |->
                  <<event.options[i].text, event.options[i].reason>>]]

\* What load_next_event puts into the event frame: the title, the
\* description and a button per option that carries the option's text.
event_panel(event) ==
  [title |-> event.title, description |-> event.description,
   options |-> [i \in 1..Len(event.options) |-> event.options[i].text]]

\* What show_decision_impact puts into the impact window: the text of the
\* chosen option, its effects on the keys of self.stats, its reason.
show_decision_impact(chosen_option) ==
  LET shown_keys == SelectSeq(chosen_option.effects.keys, LAMBDA k : HasKey(stats, k))
  IN  [text |-> chosen_option.text,
       effects |-> [keys |-> shown_keys,
                    val |-> [k \in Range(shown_keys) |-> chosen_option.effects.val[k]]],
       reason |-> chosen_option.reason]

\* setup_game_interface: the root's children are destroyed (toplevels
\* included), the game screen is built, load_next_event draws an event.
setup_game_interface ==
  /\ screen' = "game"
  /\ grab' = "none"
  /\ current_event' \in get_random_event(game_events)
  /\ error' = IF current_event' = None THEN showerror("No events available!") ELSE ""
  /\ panel' = IF current_event' = None THEN None ELSE event_panel(current_event')
  /\ impact' = None
  /\ applied' = FALSE

\* "New Game" on the main menu, or on the game-over window (which it destroys
\* first): new_game_setup opens the setup window, which takes the grab.
NewGameSetup ==
  /\ \/ screen = "menu" /\ RootClickable
     \/ grab = "game_over"
  /\ grab' = "setup"
  /\ op' = "new_game_setup"
  /\ error' = ""
  /\ effects_arg' = effects_arg
  /\ started_by' = started_by
  /\ applied' = applied
  /\ listed' = listed
  /\ clock' = clock
  /\ panel' = panel
  /\ impact' = impact
  /\ shown' = shown
  /\ replaced' = None
  /\ saved' = saved
  /\ UNCHANGED <<gui_fields, current_event, tables, screen, timers, history>>

\* entry.get().strip() or default (the entries tried are already stripped).
entry_or(entry, default) == IF entry = "" THEN default ELSE entry

\* start_game without the reset of self.stats.
NewGameStats_kept == stats

\* start_game without the reset of self.current_year.
NewGameYear_kept == current_year

NewGameStats == InitialStats
NewGameYear == START_YEAR
NewGameTurn == 0

\* "Start Game" in the setup window: start_game.
StartGame(player_entry, country_entry) ==
  /\ grab = "setup"
  /\ player_name' = entry_or(player_entry, DEFAULT_PLAYER)
  /\ country_name' = entry_or(country_entry, DEFAULT_COUNTRY)
  /\ stats' = NewGameStats
  /\ current_year' = NewGameYear
  /\ current_turn' = NewGameTurn
  /\ setup_game_interface
  /\ op' = "start_game"
  /\ effects_arg' = effects_arg
  /\ started_by' = [started_by EXCEPT !.run = player_name']
  /\ listed' = listed
  /\ clock' = clock
  /\ shown' = shown
  /\ replaced' = None
  /\ saved' = saved
  /\ phase' = "AwaitingDecision"
  /\ cause' = ""
  /\ run_scores' = 0
  /\ UNCHANGED <<tables, timers>>

\* The year test made on the turn before its increment.
year_after_stale(new_turn, year) ==
  IF (new_turn - 1) % TURNS_PER_YEAR = 0 THEN year + 1 ELSE year

\* self.current_turn += 1; if self.current_turn % 4 == 0: self.current_year += 1
turn_after(turn) == turn + 1
year_after(new_turn, year) == IF new_turn % TURNS_PER_YEAR = 0 THEN year + 1 ELSE year

\* game over: game_over_screen and return; otherwise root.after(1000, ...).
timers_after(game_over, n) == IF game_over THEN n ELSE n + 1

\* score_data taken before make_decision has moved the turn and the year.
score_data_before_increment(cause_text) ==
  [player_name       |-> player_name,
   country_name      |-> country_name,
   years_survived    |-> current_year - START_YEAR,
   turns_survived    |-> current_turn,
   final_stats       |-> stats',
   cause_of_downfall |-> cause_text]

\* score_data of game_over_screen.
score_data(cause_text) ==
  [player_name       |-> player_name,
   country_name      |-> country_name,
   years_survived    |-> current_year' - START_YEAR,
   turns_survived    |-> current_turn',
   final_stats       |-> stats',
   cause_of_downfall |-> cause_text]

\* An option button of the event panel, or any other caller:
\* make_decision(choice_index).  The option is looked up first, so a
\* TypeError (no event drawn: with no event there are no option buttons, or
\* those of the event before a draw that failed) or an IndexError leaves the
\* handler before it has done anything.  The
\* impact window opens and takes the grab; on game over the game-over window
\* opens after it and takes the grab in turn, and the score is recorded.
\* With db_raises the database raises sqlite3.Error in save_high_score (the
\* file is locked, the disk is full): no row is inserted and game_over_screen
\* puts the error on a label of the game-over window.
make_decision(choice_index, db_raises) ==
  /\ screen = "game" /\ RootClickable
  /\ IF raises_TypeError(current_event)
        \/ raises_IndexError(current_event.options, choice_index)
     THEN /\ error' = IF raises_TypeError(current_event)
                      THEN "TypeError" ELSE "IndexError"
          /\ UNCHANGED <<stats, current_turn, current_year, timers, grab,
                         high_scores, history, impact, applied>>
     ELSE LET chosen_option == list_item(current_event.options, choice_index)
              new_stats == apply_effects(stats, chosen_option.effects)
              result == check_game_over(new_stats)
          IN  /\ impact' = show_decision_impact(chosen_option)
              /\ applied' = TRUE
              /\ stats' = new_stats
              /\ current_turn' = turn_after(current_turn)
              /\ current_year' = year_after(current_turn', current_year)
              /\ timers' = timers_after(result[1], timers)
              /\ IF result[1]
                 THEN /\ grab' = "game_over"
                      /\ cause' = result[2]
                      /\ phase' = "Terminated"
                      /\ IF db_raises
                         THEN /\ error' = error_label("Failed to save score")
                              /\ UNCHANGED <<high_scores, run_scores>>
                         ELSE /\ high_scores' = save_high_score(high_scores,
                                                                score_data(result[2]))
                              /\ run_scores' = run_scores + 1
                              /\ error' = ""
                 ELSE /\ grab' = "impact"
                      /\ error' = ""
                      /\ UNCHANGED <<cause, high_scores, run_scores, phase>>
  /\ op' = "make_decision"
  /\ effects_arg' = effects_arg
  /\ started_by' = started_by
  /\ listed' = listed
  /\ clock' = clock
  /\ panel' = panel
  /\ shown' = shown
  /\ replaced' = None
  /\ saved' = saved
  /\ UNCHANGED <<country_name, player_name, current_event, game_events,
                 game_sessions, screen>>

\* make_decision with the database at work.
MakeDecision(choice_index) == make_decision(choice_index, FALSE)

\* make_decision ends the run and the database raises in save_high_score.
RecordFails(choice_index) ==
  make_decision(choice_index, TRUE) /\ grab' = "game_over"

\* The timer callback load_next_event.  On the main menu the event panel is
\* gone: the event is drawn and the redraw of the panel fails.
LoadNextEvent ==
  /\ timers > 0
  /\ timers' = timers - 1
  /\ current_event' \in get_random_event(game_events)
  /\ op' = "load_next_event"
  /\ error' = IF current_event' = None THEN showerror("No events available!") ELSE ""
  /\ effects_arg' = effects_arg
  /\ started_by' = started_by
  /\ applied' = FALSE
  /\ listed' = listed
  /\ clock' = clock
  /\ panel' = IF current_event' # None /\ screen = "game"
               THEN event_panel(current_event') ELSE panel
  /\ impact' = impact
  /\ shown' = shown
  /\ replaced' = None
  /\ saved' = saved
  /\ UNCHANGED <<gui_fields, tables, screen, grab, history>>

\* "Continue" of the impact window, or a toplevel closed from its title bar:
\* the window is destroyed and its grab ends.
CloseWindow ==
  /\ grab # "none"
  /\ grab' = "none"
  /\ op' = "close_window"
  /\ error' = ""
  /\ effects_arg' = effects_arg
  /\ started_by' = started_by
  /\ applied' = applied
  /\ listed' = <<>>
  /\ clock' = clock
  /\ panel' = panel
  /\ impact' = IF grab = "impact" THEN None ELSE impact
  /\ shown' = <<>>
  /\ replaced' = None
  /\ saved' = saved
  /\ UNCHANGED <<gui_fields, current_event, tables, screen, timers, history>>

\* "Menu" of the game screen, or "Main Menu" of the game-over window (which it
\* destroys first): setup_main_menu destroys the root's children.
MainMenu ==
  /\ \/ screen = "game" /\ RootClickable
     \/ grab = "game_over"
  /\ screen' = "menu"
  /\ grab' = "none"
  /\ op' = "setup_main_menu"
  /\ error' = ""
  /\ effects_arg' = effects_arg
  /\ started_by' = started_by
  /\ applied' = applied
  /\ listed' = listed
  /\ clock' = clock
  /\ panel' = None
  /\ impact' = None
  /\ shown' = shown
  /\ replaced' = None
  /\ saved' = saved
  /\ UNCHANGED <<gui_fields, current_event, tables, timers, history>>

\* "Leaderboard" on the main menu: show_leaderboard lists the rows that
\* get_leaderboard returns in a window that takes the grab.
ShowLeaderboard ==
  /\ screen = "menu" /\ RootClickable
  /\ shown' \in get_leaderboard(high_scores, LEADERBOARD_LIMIT)
  /\ grab' = "leaderboard"
  /\ op' = "show_leaderboard"
  /\ error' = ""
  /\ effects_arg' = effects_arg
  /\ started_by' = started_by
  /\ applied' = applied
  /\ listed' = listed
  /\ clock' = clock
  /\ panel' = panel
  /\ impact' = impact
  /\ replaced' = None
  /\ saved' = saved
  /\ UNCHANGED <<gui_fields, current_event, tables, screen, timers, history>>

\* The process ends (Exit, or the root window closed) and main runs again over
\* the same database file: __init__ as in InitOver, the tables as they are.
Restart ==
  /\ game_events' = populate_default_events(game_events)
  /\ UNCHANGED <<game_sessions, high_scores>>
  /\ stats' = InitialStats
  /\ current_year' = START_YEAR
  /\ current_turn' = 0
  /\ country_name' = ""
  /\ player_name' = ""
  /\ current_event' = None
  /\ screen' = "menu"
  /\ grab' = "none"
  /\ timers' = 0
  /\ op' = "restart"
  /\ error' = ""
  /\ effects_arg' = None
  /\ started_by' = [started_by EXCEPT !.run = None]
  /\ applied' = FALSE
  /\ listed' = <<>>
  /\ clock' = clock
  /\ panel' = None
  /\ impact' = None
  /\ shown' = <<>>
  /\ replaced' = None
  /\ saved' = saved
  /\ phase' = "NotStarted"
  /\ cause' = ""
  /\ run_scores' = 0

\* Another program that has the database file open deletes the rows of
\* game_events.
CatalogEmptied ==
  /\ game_events # <<>>
  /\ game_events' = <<>>
  /\ UNCHANGED <<gui_fields, current_event, game_sessions, high_scores, screen,
                 grab, timers, op, history, replaced, saved, shown, effects_arg,
                 error, panel, impact, listed, clock, applied,
                 started_by>>

\* The other program inserts a row into the empty game_events: the shipped
\* "Government Corruption Scandal".
CatalogFilled ==
  /\ game_events = <<>>
  /\ game_events' = StoredEvents({4})
  /\ UNCHANGED <<gui_fields, current_event, game_sessions, high_scores, screen,
                 grab, timers, op, history, replaced, saved, shown, effects_arg,
                 error, panel, impact, listed, clock, applied,
                 started_by>>

\* apply_effects(effects) called on the object as it stands, by a caller
\* other than make_decision.
ApplyEffects ==
  /\ effects_arg # None
  /\ op = "call"
  /\ stats' = apply_effects(stats, effects_arg)
  /\ op' = "apply_effects"
  /\ error' = ""
  /\ effects_arg' = effects_arg
  /\ started_by' = started_by
  /\ applied' = applied
  /\ listed' = listed
  /\ clock' = clock
  /\ panel' = panel
  /\ impact' = impact
  /\ shown' = shown
  /\ replaced' = None
  /\ saved' = saved
  /\ UNCHANGED <<current_year, current_turn, country_name, player_name,
                 current_event, tables, screen, grab, timers, history>>

\* "Save" of the game screen: save_game_dialog opens the save window.
SaveGameDialog ==
  /\ screen = "game" /\ RootClickable
  /\ grab' = "save"
  /\ op' = "save_game_dialog"
  /\ error' = ""
  /\ effects_arg' = effects_arg
  /\ started_by' = started_by
  /\ applied' = applied
  /\ listed' = listed
  /\ clock' = clock
  /\ panel' = panel
  /\ impact' = impact
  /\ shown' = shown
  /\ replaced' = None
  /\ saved' = saved
  /\ UNCHANGED <<gui_fields, current_event, tables, screen, timers, history>>

game_state ==
  [country_name |-> country_name, current_year |-> current_year,
   current_turn |-> current_turn, stats |-> stats]

\* "Save" in the save window: an empty name is refused and the window stays.
SaveGame(save_entry) ==
  /\ grab = "save"
  /\ IF save_entry = ""
     THEN /\ error' = showerror("Save name cannot be empty!")
          /\ started_by' = started_by
          /\ UNCHANGED <<game_sessions, grab, saved>> /\ replaced' = None
     ELSE /\ game_sessions' = save_game(game_sessions, save_entry, game_state)
          /\ started_by' = [started_by EXCEPT !.session[save_entry] = started_by.run]
          /\ replaced' = replaced_row(game_sessions, save_entry)
          /\ saved' = [saved EXCEPT ![save_entry] = game_state]
          /\ grab' = "none"
          /\ error' = ""
  /\ op' = "save_game"
  /\ effects_arg' = effects_arg
  /\ applied' = applied
  /\ listed' = listed
  /\ clock' = clock
  /\ panel' = panel
  /\ impact' = impact
  /\ shown' = shown
  /\ UNCHANGED <<gui_fields, current_event, game_events, high_scores, screen,
                 timers, history>>

\* "Save" in the save window with a name, and the database raises
\* sqlite3.Error in save_game: no row is written, the except branch shows the
\* error and the window stays.
SaveGameDbError(save_entry) ==
  /\ grab = "save"
  /\ save_entry # ""
  /\ error' = showerror("Failed to save game")
  /\ op' = "save_game"
  /\ effects_arg' = effects_arg
  /\ started_by' = started_by
  /\ applied' = applied
  /\ listed' = listed
  /\ clock' = clock
  /\ panel' = panel
  /\ impact' = impact
  /\ shown' = shown
  /\ replaced' = None
  /\ saved' = saved
  /\ UNCHANGED <<gui_fields, current_event, tables, screen, grab, timers, history>>

\* "Load Game" on the main menu: with no saved game a message is shown,
\* otherwise the load window lists a button per saved game.
LoadGameMenu ==
  /\ screen = "menu" /\ RootClickable
  /\ listed' \in get_saved_games(game_sessions)
  /\ listed' # <<>>
  /\ grab' = "load"
  /\ op' = "load_game_menu"
  /\ error' = ""
  /\ effects_arg' = effects_arg
  /\ started_by' = started_by
  /\ applied' = applied
  /\ clock' = clock
  /\ panel' = panel
  /\ impact' = impact
  /\ shown' = shown
  /\ replaced' = None
  /\ saved' = saved
  /\ UNCHANGED <<gui_fields, current_event, tables, screen, timers, history>>

\* load_selected_game(save_name, load_window), by a "Load" button of the load
\* window or by any other caller: a name with no row gets an error message
\* and the window stays.
LoadSelectedGame(save_name) ==
  /\ grab = "load"
  /\ LET loaded == load_game(game_sessions, save_name)
     IN  IF loaded # None
         THEN /\ country_name' = loaded.country_name
              /\ current_year' = loaded.current_year
              /\ current_turn' = loaded.current_turn
              /\ stats' = loaded.stats
              /\ setup_game_interface
              /\ started_by' = [started_by EXCEPT !.run = started_by.session[save_name]]
              /\ listed' = <<>>
              /\ phase' = "AwaitingDecision"
              /\ cause' = ""
              /\ run_scores' = 0
         ELSE /\ error' = showerror("Failed to load game!")
              /\ UNCHANGED <<stats, current_year, current_turn, country_name,
                             current_event, screen, grab, history, panel,
                             impact, listed, applied, started_by>>
  /\ op' = "load_selected_game"
  /\ effects_arg' = effects_arg
  /\ clock' = clock
  /\ shown' = shown
  /\ replaced' = None
  /\ saved' = saved
  /\ UNCHANGED <<player_name, tables, timers>>

\* load_selected_game and the database raises sqlite3.Error in load_game:
\* the handler has no except branch, the exception leaves it at its first
\* line and reaches the caller (Tk reports it and the main loop goes on).
LoadSelectedGameDbError(save_name) ==
  /\ grab = "load"
  /\ error' = "sqlite3.Error"
  /\ op' = "load_selected_game"
  /\ effects_arg' = effects_arg
  /\ started_by' = started_by
  /\ applied' = applied
  /\ listed' = listed
  /\ clock' = clock
  /\ panel' = panel
  /\ impact' = impact
  /\ shown' = shown
  /\ replaced' = None
  /\ saved' = saved
  /\ UNCHANGED <<gui_fields, current_event, tables, screen, grab, timers, history>>

\* The load window has a "Load" button for each saved game.
LoadButton(save_name) ==
  /\ save_name \in {row[1] : row \in Range(listed)}
  /\ LoadSelectedGame(save_name)

\* The exploration stops at maxTurn turns of a run, maxTimers pending timers
\* and maxScores rows of high_scores.
Within(maxTurn, maxTimers, maxScores) ==
  current_turn < maxTurn /\ timers < maxTimers /\ Len(high_scores) < maxScores

Decide(choice_index, maxTurn, maxTimers, maxScores) ==
  Within(maxTurn, maxTimers, maxScores) /\ MakeDecision(choice_index)

Play(players, countries, maxTurn, maxTimers, maxScores) ==
  \/ NewGameSetup
  \/ \E p \in players, c \in countries : StartGame(p, c)
  \/ \E i \in 0..3 : Decide(i, maxTurn, maxTimers, maxScores)
  \/ LoadNextEvent
  \/ CloseWindow
  \/ MainMenu

SaveLoad(saves) ==
  \/ SaveGameDialog
  \/ \E n \in saves : SaveGame(n)
  \/ LoadGameMenu
  \/ \E n \in saves : LoadButton(n)

\* The database file outlives the process, and populate_default_events leaves
\* a game_events table that holds rows alone: the process starts over whatever
\* the file holds.  Here it holds the shipped "Government Corruption Scandal".
StartupFile ==
  [game_events |-> StoredEvents({4}), game_sessions |-> <<>>, high_scores |-> <<>>]

Init == InitOver(StartupFile)

\* A player who never saves.
Next == Play(PlayerEntries, CountryEntries, MaxTurn, MaxTimers, MaxScores)

Spec == Init /\ [][Next]_vars

\* Saving and loading under one name.
NextStore ==
  \/ Play(PlayerEntries, CountryEntries, MaxTurn - 1, MaxTimers, MaxScores - 1)
  \/ SaveLoad({"", "alpha"})

SpecStore == Init /\ [][NextStore]_vars

\* Saving and loading under two names, in the first turns of a run.
NextSaves ==
  \/ Play(PlayerEntries, CountryEntries, MaxTurn - 3, MaxTimers - 1, MaxScores - 1)
  \/ SaveLoad(SaveEntries)

SpecSaves == Init /\ [][NextSaves]_vars

\* Runs of two years and more.
NextLong ==
  Play(PlayerEntries, CountryEntries, MaxTurn + TURNS_PER_YEAR, MaxTimers - 1, MaxScores - 1)

SpecLong == Init /\ [][NextLong]_vars

\* Saving and loading under one name over several runs and their records, by
\* a player who chooses between the first two options of an event.
NextBoard ==
  \/ NewGameSetup
  \/ \E p \in PlayerEntries, c \in CountryEntries : StartGame(p, c)
  \/ \E i \in 0..1 : Decide(i, MaxTurn - 1, MaxTimers - 1, MaxScores)
  \/ LoadNextEvent
  \/ CloseWindow
  \/ MainMenu
  \/ SaveLoad({"", "alpha"})

SpecBoard == Init /\ [][NextBoard]_vars

\* Saving and loading under two names over whole runs, by a player who
\* chooses between the first two options of an event.
NextKeep ==
  \/ NewGameSetup
  \/ \E p \in PlayerEntries, c \in CountryEntries : StartGame(p, c)
  \/ \E i \in 0..1 : Decide(i, MaxTurn - 1, MaxTimers - 1, MaxScores - 1)
  \/ LoadNextEvent
  \/ CloseWindow
  \/ MainMenu
  \/ SaveLoad(SaveEntries)

SpecKeep == Init /\ [][NextKeep]_vars

\* get_leaderboard(limit) called once on the tables as the constructor
\* found them, by a caller other than show_leaderboard; shown takes the rows
\* it returns.
GetLeaderboard(limit) ==
  /\ op = "init"
  /\ shown' \in get_leaderboard(high_scores, limit)
  /\ op' = "get_leaderboard"
  /\ error' = ""
  /\ effects_arg' = effects_arg
  /\ started_by' = started_by
  /\ applied' = applied
  /\ listed' = listed
  /\ clock' = clock
  /\ panel' = panel
  /\ impact' = impact
  /\ replaced' = None
  /\ saved' = saved
  /\ UNCHANGED <<gui_fields, current_event, tables, screen, grab, timers, history>>

\* get_leaderboard over the high_scores of a file that earlier processes
\* left: up to five records of runs that ended at turn 3 (year 0), 4 or 5
\* (year 1), several with the same result among them, and every limit from
\* 0 to 6.
Limits == 0..6
Results == {<<0, 3>>, <<1, 4>>, <<1, 5>>}

ScoreTables ==
  UNION {{[i \in 1..k |->
             ScoreRow(i, [player_name |-> DEFAULT_PLAYER,
                          country_name |-> DEFAULT_COUNTRY,
                          years_survived |-> t[i][1],
                          turns_survived |-> t[i][2],
                          final_stats |-> Dict(StatNames, <<60, 0, 10, 50, 50, 50>>),
                          cause_of_downfall |-> causes["happiness"]])] :
            t \in [1..k -> Results]} : k \in 0..5}

InitTop ==
  \E t \in ScoreTables :
    InitOver([game_events |-> StoredEvents({4}), game_sessions |-> <<>>,
              high_scores |-> t])

NextTop == \E n \in Limits : GetLeaderboard(n)

SpecTop == InitTop /\ [][NextTop]_vars

\* Saving and loading under one name in runs that pass the first year, by a
\* player who chooses between "Attempt to suppress the story" and "Quietly
\* remove officials without fanfare".
NextYears ==
  \/ NewGameSetup
  \/ \E p \in PlayerEntries, c \in CountryEntries : StartGame(p, c)
  \/ \E i \in 1..2 : Decide(i, MaxTurn + 2, MaxTimers - 1, MaxScores - 1)
  \/ LoadNextEvent
  \/ CloseWindow
  \/ MainMenu
  \/ SaveLoad({"", "alpha"})

SpecYears == Init /\ [][NextYears]_vars

\* A second passes.
Tick ==
  /\ clock < MaxClock
  /\ clock' = clock + 1
  /\ UNCHANGED <<gui_fields, current_event, tables, screen, grab, timers, op,
                 history, replaced, saved, shown, effects_arg, error, panel,
                 impact, listed, applied, started_by>>

\* Saving under two names in the first turn of a run, within a second or
\* seconds apart, and the list of the saved games.
NextList ==
  \/ Play(PlayerEntries, CountryEntries, MaxTurn - 3, MaxTimers - 1, MaxScores - 1)
  \/ SaveLoad(SaveEntries)
  \/ Tick

SpecList == Init /\ [][NextList]_vars

\* Saving and loading under one name with a database that may raise
\* sqlite3.Error in save_game, load_game and save_high_score, by a player who
\* chooses between the first two options of an event.
NextFail ==
  \/ NewGameSetup
  \/ \E p \in PlayerEntries, c \in CountryEntries : StartGame(p, c)
  \/ \E i \in 0..1 : Decide(i, MaxTurn - 1, MaxTimers - 1, MaxScores - 1)
  \/ LoadNextEvent
  \/ CloseWindow
  \/ MainMenu
  \/ SaveLoad({"", "alpha"})
  \/ SaveGameDbError("alpha")
  \/ LoadSelectedGameDbError("alpha")
  \/ \E i \in 0..1 : Within(MaxTurn - 1, MaxTimers - 1, MaxScores - 1) /\ RecordFails(i)

SpecFail == Init /\ [][NextFail]_vars

\* Two presidents who always choose "Attempt to suppress the story", and the
\* leaderboard.
HallPlayers == {"", "Ada"}

NextHall ==
  \/ NewGameSetup
  \/ \E p \in HallPlayers, c \in CountryEntries : StartGame(p, c)
  \/ Decide(1, MaxTurn - 1, MaxTimers - 1, MaxScores)
  \/ LoadNextEvent
  \/ CloseWindow
  \/ MainMenu
  \/ ShowLeaderboard

SpecHall == Init /\ [][NextHall]_vars

\* Two presidents at one machine who always choose "Attempt to suppress the
\* story", saving and loading under one name.
NextOwner ==
  \/ NewGameSetup
  \/ \E p \in HallPlayers, c \in CountryEntries : StartGame(p, c)
  \/ Decide(1, MaxTurn - 1, MaxTimers - 1, MaxScores - 1)
  \/ LoadNextEvent
  \/ CloseWindow
  \/ MainMenu
  \/ SaveLoad({"", "alpha"})

SpecOwner == Init /\ [][NextOwner]_vars

\* apply_effects called once on a game in progress.  The stats tried put
\* economy, happiness and environment at the ends of the range, next to them
\* and in the middle; the dicts tried have up to two keys, "popularity" no
\* stat among them, and changes that stay in the range or leave it.
StatValues == {0, 1, 50, 99, 100}

StatVectors ==
  {Dict(StatNames, <<a, b, START_STAT, START_STAT, START_STAT, c>>) :
     a \in StatValues, b \in StatValues, c \in StatValues}

EffectKeys == {"economy", "happiness", "environment", "popularity"}
Changes == {-101, -1, 1, 101}

EffectMaps ==
  {Dict(<<>>, <<>>)}
    \cup {Dict(<<k>>, <<d>>) : k \in EffectKeys, d \in Changes}
    \cup {Dict(<<k[1], k[2]>>, <<d[1], d[2]>>) :
            k \in {x \in EffectKeys \X EffectKeys : x[1] # x[2]},
            d \in Changes \X Changes}

InitApply ==
  /\ clock = 0
  /\ game_events = populate_default_events(StartupFile.game_events)
  /\ game_sessions = <<>>
  /\ high_scores = <<>>
  /\ stats \in StatVectors
  /\ effects_arg \in EffectMaps
  /\ current_year = START_YEAR
  /\ current_turn = 1
  /\ country_name = DEFAULT_COUNTRY
  /\ player_name = DEFAULT_PLAYER
  /\ current_event \in get_random_event(game_events)
  /\ screen = "game"
  /\ grab = "none"
  /\ timers = 0
  /\ op = "call"
  /\ phase = "AwaitingDecision"
  /\ cause = ""
  /\ run_scores = 0
  /\ replaced = None
  /\ saved = [n \in SaveNames |-> None]
  /\ shown = <<>>
  /\ error = ""
  /\ panel = event_panel(current_event)
  /\ impact = None
  /\ listed = <<>>
  /\ applied = FALSE
  /\ started_by = [run |-> None, session |-> [n \in SaveNames |-> None]]

NextApply == ApplyEffects

SpecApply == InitApply /\ [][NextApply]_vars

\* The process started over a new file, or over a file that holds one or two
\* events, and started again at any moment of the first turn of a run.
SeedFiles ==
  {[game_events |-> StoredEvents(ids), game_sessions |-> <<>>, high_scores |-> <<>>] :
     ids \in {{}, {4}, {2, 4}}}

InitSeed == \E file \in SeedFiles : InitOver(file)

NextSeed ==
  \/ Play(PlayerEntries, CountryEntries, MaxTurn - 3, MaxTimers - 1, MaxScores - 1)
  \/ Restart

SpecSeed == InitSeed /\ [][NextSeed]_vars

\* The first turns of a run over a catalog that is emptied at some moment,
\* and filled again at a later one.
NextEmpty ==
  \/ Play(PlayerEntries, CountryEntries, MaxTurn - 2, MaxTimers - 1, MaxScores - 1)
  \/ CatalogEmptied
  \/ CatalogFilled

SpecEmpty == Init /\ [][NextEmpty]_vars

\* make_decision called with the indices of CallIndices as well as by the
\* option buttons.
CallIndices == {-5, -4, -1, 4}

NextCall ==
  \/ Play(PlayerEntries, CountryEntries, MaxTurn - 1, MaxTimers - 1, MaxScores - 1)
  \/ \E i \in CallIndices : Decide(i, MaxTurn - 1, MaxTimers - 1, MaxScores - 1)

SpecCall == Init /\ [][NextCall]_vars

\* A file left by an earlier process: it holds the same event and the session
\* "alpha", saved after two turns of "Attempt to suppress the story" (SpecStore
\* reaches a state with these tables: LeftByEarlierProcess).
ResumeFile ==
  [game_events   |-> StoredEvents({4}),
   game_sessions |-> <<SessionRow("alpha",
                         [country_name |-> DEFAULT_COUNTRY,
                          current_year |-> START_YEAR,
                          current_turn |-> 2,
                          stats |-> Dict(StatNames, <<60, 10, 20, 50, 50, 50>>)])>>,
   high_scores   |-> <<>>]

LeftByEarlierProcess ==
  /\ game_sessions = ResumeFile.game_sessions
  /\ high_scores = ResumeFile.high_scores

\* A player who loads the sessions of the file and never saves.
NextResume ==
  \/ Play(PlayerEntries, CountryEntries, MaxTurn, MaxTimers - 1, MaxScores)
  \/ LoadGameMenu
  \/ \E n \in SaveEntries : LoadButton(n)

InitResume == InitOver(ResumeFile)

SpecResume == InitResume /\ [][NextResume]_vars

\* load_selected_game called with names that have a row and names that have
\* none, over the file that holds "alpha".
NextMiss ==
  \/ Play(PlayerEntries, CountryEntries, MaxTurn - 1, MaxTimers - 1, MaxScores - 1)
  \/ LoadGameMenu
  \/ \E n \in SaveNames : LoadSelectedGame(n)

SpecMiss == InitResume /\ [][NextMiss]_vars

(***************************************************************************)
(* Claims.                                                                 *)
(***************************************************************************)
SixStats ==
  {"economy", "happiness", "stability", "relations", "military_power", "environment"}

\* C1: in every reachable state, whatever sequence of start, decide, save and
\* load led to it, each of the six stats is an integer in 0..100.
C1_StatsInRange ==
  \A stat \in SixStats : stats.val[stat] \in 0..100

\* C1 witness: a session saved with happiness clamped to 0 (50 - 3 * 20) has
\* been loaded back.
C1_Witness ==
  /\ op = "load_selected_game"
  /\ stats.val["happiness"] = 0
  /\ stats.val["stability"] = 5
  /\ current_turn = 3

\* C2: a decision sets every stat named in the chosen option's effects to
\* max(0, min(100, old value + delta)).
C2_ApplyClamps ==
  [][\A i \in 0..3 :
       MakeDecision(i) =>
         LET effects == current_event.options[i + 1].effects
         IN  \A stat \in SixStats :
               HasKey(effects, stat) =>
                 stats'.val[stat] =
                   Max(0, Min(100, stats.val[stat] + effects.val[stat]))]_vars

\* C2 witness: a decision has brought stability to its ceiling (50 + 4 * 15)
\* where the sum passes 100.
C2_Witness ==
  /\ op = "make_decision"
  /\ current_turn = 4
  /\ stats.val["stability"] = 100
  /\ stats.val["happiness"] = 90

\* C3: after a decision the game is reported over exactly when one of the six
\* stats is 0; stats all in 1..100, a stat at 100 included, do not end the run.
C3_TerminalIffZero ==
  op = "make_decision" =>
    ((grab = "game_over") <=> (\E stat \in SixStats : stats.val[stat] = 0))

\* C3 witness: a decision has brought stability to 100 and the run goes on.
C3_Witness ==
  /\ op = "make_decision"
  /\ stats.val["stability"] = 100
  /\ grab = "impact"
  /\ phase = "AwaitingDecision"

\* The decision step on its own: a decision of a run awaiting one ends the run
\* when the updated stats hold a 0 (Terminated, a cause reported, no draw
\* scheduled, the event left as it is), and otherwise schedules the draw of
\* the next event and leaves the run awaiting; a scheduled draw takes an event
\* of the catalog.
C4_DecisionStep ==
  /\ [][\A i \in 0..3 :
          (phase = "AwaitingDecision" /\ MakeDecision(i)) =>
            IF \E stat \in SixStats : stats'.val[stat] = 0
            THEN /\ phase' = "Terminated"
                 /\ grab' = "game_over"
                 /\ cause' # ""
                 /\ timers' = timers
                 /\ current_event' = current_event
            ELSE /\ phase' = "AwaitingDecision"
                 /\ grab' # "game_over"
                 /\ timers' = timers + 1]_vars
  /\ [][LoadNextEvent =>
          /\ \E r \in Range(game_events) :
               /\ current_event'.title = r.title
               /\ current_event'.options = r.options.json
          /\ phase' = phase]_vars

\* C4: a decision of a run awaiting one applies the effects and then either
\* ends the run (Terminated, cause reported), after which no further event is
\* drawn for the run, or has the next event drawn from the catalog and leaves
\* the run awaiting a decision.
C4_DecideThenTerminateOrDraw ==
  /\ C4_DecisionStep
  /\ [][LoadNextEvent => phase # "Terminated"]_vars

\* C5: every decision adds 1 to current_turn, and 1 to current_year exactly
\* when the new current_turn is a multiple of 4; a run started at turn 0 in
\* 2024 is in 2025 after 4 and after 7 decisions and in 2026 after 8.
C5_TurnAndYear ==
  /\ [][\A i \in 0..3 :
          MakeDecision(i) =>
            /\ current_turn' = current_turn + 1
            /\ current_year' =
                 current_year + (IF current_turn' % 4 = 0 THEN 1 ELSE 0)]_vars
  /\ [](current_turn \in {4, 7} => current_year = 2025)
  /\ [](current_turn = 8 => current_year = 2026)

\* C5 witness: the eighth decision of a run has been applied.
C5_Witness ==
  /\ op = "make_decision"
  /\ current_turn = 8
  /\ current_year = 2026

\* C6: each run that reaches Terminated has exactly one record in high_scores,
\* inserted by the decision that ended it, and a run that has not reached
\* Terminated has none.
C6_ExactlyOneScorePerRun ==
  run_scores = (IF phase = "Terminated" THEN 1 ELSE 0)

\* C7: a decision made while the run is NotStarted or Terminated leaves the
\* six stats, current_turn, current_year and high_scores as they are.
C7_DecideOnlyWhenAwaiting ==
  [][\A i \in 0..3 :
       (phase \in {"NotStarted", "Terminated"} /\ MakeDecision(i)) =>
         UNCHANGED <<stats, current_turn, current_year, high_scores>>]_vars

CanonicalOrder ==
  <<"economy", "happiness", "stability", "relations", "military_power", "environment">>

\* C8: while the game-over window of a run is up, whether the run was started
\* or loaded, the cause it reports is that of the first stat at 0 in the order
\* economy, happiness, stability, relations, military_power, environment.
C8_CauseOfFirstZero ==
  grab = "game_over" =>
    \E i \in 1..6 :
      /\ stats.val[CanonicalOrder[i]] = 0
      /\ \A j \in 1..(i - 1) : stats.val[CanonicalOrder[j]] # 0
      /\ cause = causes[CanonicalOrder[i]]

\* C8 witness: in a loaded run (no start_game has set player_name) a decision
\* has left happiness and stability both at 0, and happiness is reported.
C8_Witness ==
  /\ op = "make_decision"
  /\ grab = "game_over"
  /\ player_name = ""
  /\ stats.val["happiness"] = 0
  /\ stats.val["stability"] = 0
  /\ cause = "Revolution!"

\* C9: start_game, whatever the state of the run before it, sets the six stats
\* to 50, current_year to 2024 and current_turn to 0, draws an event of the
\* catalog and leaves the run awaiting a decision on the game screen.
C9_StartResets ==
  [][\A p \in PlayerEntries, c \in CountryEntries :
       StartGame(p, c) =>
         /\ \A stat \in SixStats : stats'.val[stat] = 50
         /\ DOMAIN stats'.val = SixStats
         /\ current_year' = 2024
         /\ current_turn' = 0
         /\ \E r \in Range(game_events) :
              /\ current_event'.title = r.title
              /\ current_event'.options = r.options.json
         /\ phase' = "AwaitingDecision"
         /\ screen' = "game"
         /\ grab' = "none"]_vars

\* C9 witness: start_game has run after a run was ended and recorded, and the
\* stats are back at 50.
C9_Witness ==
  /\ op = "start_game"
  /\ Len(high_scores) = 1
  /\ high_scores[1].final_happiness = 0
  /\ stats.val["happiness"] = 50
  /\ phase = "AwaitingDecision"

\* C10: right after a save under a name, load_game of that name returns the
\* state just saved, whatever was stored under the name before; and no other
\* step, a save under another name included, changes what load_game of the
\* name returns.  So load returns the session most recently saved under it.
C10_UpsertOverwrite ==
  [][\A m \in SaveEntries \ {""} :
       /\ SaveGame(m) => load_game(game_sessions', m) = game_state
       /\ ~SaveGame(m) => load_game(game_sessions', m) = load_game(game_sessions, m)]_vars

\* C10 witness: "alpha" has just been saved over an older, different "alpha"
\* that stood before "beta" in the table: "beta" was saved between the two.
C10_Witness ==
  /\ op = "save_game"
  /\ replaced # None
  /\ replaced.place = 1
  /\ replaced.row.save_name = "alpha"
  /\ Len(game_sessions) = 2
  /\ game_sessions[1].save_name = "beta"
  /\ game_sessions[2].save_name = "alpha"
  /\ game_sessions[2].current_turn # replaced.row.current_turn
  /\ load_game(game_sessions, "alpha").current_turn = current_turn

\* C11: a load of a name gives the run the country_name, current_year,
\* current_turn and six stats of the state last saved under that name.
C11_SaveLoadRoundTrip ==
  [][\A m \in SaveNames :
       (saved[m] # None /\ LoadSelectedGame(m)) =>
         /\ country_name' = saved[m].country_name
         /\ current_year' = saved[m].current_year
         /\ current_turn' = saved[m].current_turn
         /\ \A stat \in SixStats : stats'.val[stat] = saved[m].stats.val[stat]]_vars

\* C11 witness: the run saved as "alpha" after two turns was played to its end
\* and recorded, and "alpha" has been loaded back.
C11_Witness ==
  /\ op = "load_selected_game"
  /\ saved["alpha"] # None
  /\ high_scores # <<>>
  /\ current_turn = 2
  /\ stats.val["happiness"] = 10
  /\ stats.val["economy"] = 60
  /\ phase = "AwaitingDecision"

\* C12: game_sessions never holds two rows of one save_name, and a save under
\* a name that has a row succeeds (the save window closes) and puts the state
\* saved in the place of that row: the table has as many rows as before, and
\* the one of that name holds the new state.
C12_OneSnapshotPerName ==
  /\ [](\A i, j \in 1..Len(game_sessions) :
          game_sessions[i].save_name = game_sessions[j].save_name => i = j)
  /\ [][\A m \in SaveNames :
          ((\E r \in Range(game_sessions) : r.save_name = m) /\ SaveGame(m)) =>
            /\ grab' = "none"
            /\ Len(game_sessions') = Len(game_sessions)
            /\ \E r \in Range(game_sessions') : r = SessionRow(m, game_state)]_vars

\* C12 witness: with "alpha" and "beta" stored, "beta" has been saved again
\* with another state.
C12_Witness ==
  /\ op = "save_game"
  /\ replaced # None
  /\ replaced.row.save_name = "beta"
  /\ Len(game_sessions) = 2
  /\ game_sessions[1].save_name = "alpha"
  /\ game_sessions[2].save_name = "beta"
  /\ game_sessions[2] # replaced.row

\* C13: a decision whose index is outside 0..n-1, n the number of options of
\* the current event, applies nothing: the six stats, current_turn,
\* current_year, the current event and the state of the run stay as they are.
C13_InvalidIndexAppliesNothing ==
  [][\A i \in CallIndices :
       (MakeDecision(i) /\ i \notin 0..(Len(current_event.options) - 1)) =>
         UNCHANGED <<stats, current_turn, current_year, current_event, phase,
                     high_scores>>]_vars

\* C14: every step leaves the rows of high_scores as they are, in their
\* places, and adds at most one row after them; only a decision adds one.
C14_ScoreboardAppendOnly ==
  [][/\ Len(high_scores') \in {Len(high_scores), Len(high_scores) + 1}
     /\ SubSeq(high_scores', 1, Len(high_scores)) = high_scores
     /\ high_scores' # high_scores => \E i \in 0..3 : MakeDecision(i)]_vars

\* C14 witness: a second record has been added after the first, with a save
\* made and a session loaded along the way.
C14_Witness ==
  /\ Len(high_scores) = 2
  /\ saved["alpha"] # None
  /\ op = "load_selected_game"

\* The place in the leaderboard of row i of high_scores when rows are ranked
\* by years_survived descending, then turns_survived descending, then by
\* their order of insertion.
Rank(i) ==
  1 + Cardinality({j \in 1..Len(high_scores) :
        \/ high_scores[j].years_survived > high_scores[i].years_survived
        \/ /\ high_scores[j].years_survived = high_scores[i].years_survived
           /\ high_scores[j].turns_survived > high_scores[i].turns_survived
        \/ /\ high_scores[j].years_survived = high_scores[i].years_survived
           /\ high_scores[j].turns_survived = high_scores[i].turns_survived
           /\ j < i})

C16_ScoreYearsAndTurns ==
  [][\A i \in 0..3 :
       (MakeDecision(i) /\ Len(high_scores') > Len(high_scores)) =>
         LET record == high_scores'[Len(high_scores')]
         IN  /\ record.years_survived = current_year' - 2024
             /\ record.turns_survived = current_turn'
             /\ record.turns_survived = current_turn + 1
             /\ record.years_survived =
                  (current_year - 2024) + (IF (current_turn + 1) % 4 = 0 THEN 1 ELSE 0)]_vars

\* C16 witness: the run ended on its fourth decision, the one that moved the
\* year to 2025, and its record says 1 year and 4 turns.
C16_Witness ==
  /\ op = "make_decision"
  /\ grab = "game_over"
  /\ current_turn = 4
  /\ current_year = 2025
  /\ run_scores = 1
  /\ high_scores[Len(high_scores)].years_survived = 1
  /\ high_scores[Len(high_scores)].turns_survived = 4

FinalColumn ==
  [economy |-> "final_economy", happiness |-> "final_happiness",
   stability |-> "final_stability", relations |-> "final_relations",
   military_power |-> "final_military_power", environment |-> "final_environment"]

\* C17: the record that a decision adds to high_scores holds, for each of the
\* six stats, the value of the stat as the decision leaves it.
C17_ScoreHoldsSixStats ==
  [][\A i \in 0..3 :
       (MakeDecision(i) /\ Len(high_scores') > Len(high_scores)) =>
         LET record == high_scores'[Len(high_scores')]
         IN  \A stat \in SixStats :
               /\ FinalColumn[stat] \in DOMAIN record
               /\ record[FinalColumn[stat]] = stats'.val[stat]]_vars

\* C18: apply_effects leaves every stat that is no key of the dict it is given
\* as it was, and given the empty dict it leaves the whole of self.stats as it
\* was.
C18_ApplyFrame ==
  [][ApplyEffects =>
       /\ \A stat \in SixStats :
            stat \notin Range(effects_arg.keys) => stats'.val[stat] = stats.val[stat]
       /\ effects_arg.keys = <<>> => stats' = stats]_vars

\* C18 witness: the empty dict has been applied to stats at both ends of the
\* range.
C18_Witness ==
  /\ op = "apply_effects"
  /\ effects_arg # None
  /\ effects_arg.keys = <<>>
  /\ stats.val["economy"] = 0
  /\ stats.val["happiness"] = 100

\* C19: the catalog is seeded only when it holds no event: a catalog that
\* holds events is left as it is by every step, a new start of the program
\* included, and a catalog seeded from nothing holds the 7 seed events, each
\* once, however often the program has started since.
C19_SeedOnlyWhenEmpty ==
  /\ [][Len(game_events) > 0 => game_events' = game_events]_vars
  /\ [](\/ /\ Len(game_events) = 7
           /\ Cardinality({r.title : r \in Range(game_events)}) = 7
        \/ /\ Len(game_events) \in {1, 2}
           /\ \E file \in SeedFiles : game_events = file.game_events)

\* C19 witness: the program has started again over the file that the first
\* start seeded, and the catalog holds 7 events.
C19_Witness ==
  /\ op = "restart"
  /\ Len(game_events) = 7
  /\ game_events[1].title = "Auto Industry Strike"
  /\ game_events[7].title = "Healthcare System Crisis"

\* C20: over an empty catalog the draw made by start_game and the draw made
\* by the timer of a decision give no event, and the draw leaves the stats,
\* the turn and the year as they are (as start_game has set them, for its
\* draw); while no event has been drawn, a decision applies nothing.
C20_EmptyCatalog ==
  /\ [][(game_events = <<>> /\ LoadNextEvent) =>
          /\ current_event' = None
          /\ UNCHANGED <<stats, current_turn, current_year>>]_vars
  /\ [][\A p \in PlayerEntries, c \in CountryEntries :
          (game_events = <<>> /\ StartGame(p, c)) =>
            /\ current_event' = None
            /\ \A stat \in SixStats : stats'.val[stat] = 50
            /\ current_turn' = 0
            /\ current_year' = 2024]_vars
  /\ [][\A i \in 0..3 :
          (current_event = None /\ MakeDecision(i)) =>
            UNCHANGED <<stats, current_turn, current_year, current_event,
                        high_scores, timers, phase>>]_vars

\* C20 witness: after a first decision the draw found the catalog empty, and
\* an option button of the event before has been pressed.
C20_Witness ==
  /\ op = "make_decision"
  /\ game_events = <<>>
  /\ current_event = None
  /\ screen = "game"
  /\ current_turn = 1
  /\ timers = 0

\* C21: load_selected_game of a name that has no row in game_sessions finds
\* nothing (load_game gives None) and leaves country_name, current_year,
\* current_turn, the stats, the current event and the state of the run as
\* they are.
C21_LoadMissChangesNothing ==
  [][\A m \in SaveNames :
       ((\A r \in Range(game_sessions) : r.save_name # m) /\ LoadSelectedGame(m)) =>
         /\ load_game(game_sessions, m) = None
         /\ UNCHANGED <<country_name, current_year, current_turn, stats,
                        current_event, phase>>]_vars

\* C21 witness: with a run of one turn in memory, a name that is not stored
\* has been asked for; the load window is still up.
C21_Witness ==
  /\ op = "load_selected_game"
  /\ grab = "load"
  /\ current_turn = 1
  /\ stats.val["happiness"] = 30
  /\ phase = "AwaitingDecision"
  /\ \A r \in Range(game_sessions) : r.save_name = "alpha"

\* C22: when the database raises during a save, a load or the record of a
\* score, the handler reports an error (a message box, the error label, or
\* the exception itself) and the run in memory is kept: the failed save and
\* the failed load leave the six stats, the turn, the year, the country and
\* the state of the run as they were, and the failed record leaves them as
\* the decision that ended the run made them, with no row written.
C22_FailureSurfacedRunKept ==
  [][/\ (SaveGameDbError("alpha") \/ LoadSelectedGameDbError("alpha")) =>
          /\ error' # ""
          /\ UNCHANGED <<stats, current_turn, current_year, country_name, phase,
                         game_sessions, high_scores>>
     /\ \A i \in 0..3 :
          RecordFails(i) =>
            /\ error' # ""
            /\ stats' = apply_effects(stats, list_item(current_event.options, i).effects)
            /\ \A k \in SixStats : stats'.val[k] \in STAT_MIN..STAT_MAX
            /\ current_turn' = current_turn + 1
            /\ current_year' = year_after(current_turn', current_year)
            /\ country_name' = country_name
            /\ phase' = "Terminated"
            /\ high_scores' = high_scores]_vars

C22_Witness ==
  /\ op = "save_game" /\ error = "Failed to save game" /\ grab = "save"
  /\ current_turn = 2 /\ stats.val["happiness"] = 10
  /\ phase = "AwaitingDecision" /\ game_sessions = <<>>

C22_WitnessRecord ==
  /\ op = "make_decision" /\ error = "Failed to save score"
  /\ phase = "Terminated" /\ high_scores = <<>> /\ current_turn = 3

C22_WitnessLoad ==
  /\ op = "load_selected_game" /\ error = "sqlite3.Error" /\ grab = "load"
  /\ Len(game_sessions) = 1
\* C23: what the event panel shows of the current event is its title, its
\* description and the texts of its options, nothing of their reasons or
\* effects; and an impact window that shows an option's effects and reason
\* comes up only in a step of make_decision for that option, a step that has
\* applied the option's effects to the stats.
C23_ReasonOnlyAfterApplied ==
  [][/\ panel' # None =>
          /\ DOMAIN panel' = {"title", "description", "options"}
          /\ panel'.title = current_event'.title
          /\ panel'.description = current_event'.description
          /\ \A i \in 1..Len(current_event'.options) :
                panel'.options[i] = current_event'.options[i].text
     /\ (impact' # None /\ impact' # impact) =>
          \E i \in 0..3 :
            /\ MakeDecision(i)
            /\ impact'.reason = list_item(current_event.options, i).reason
            /\ impact'.text = list_item(current_event.options, i).text
            /\ stats' = apply_effects(stats, list_item(current_event.options, i).effects)
            /\ \A k \in Range(impact'.effects.keys) :
                  stats'.val[k] = clamp(stats.val[k] + impact'.effects.val[k])]_vars

C23_Witness ==
  /\ op = "make_decision" /\ grab = "impact" /\ impact # None
  /\ impact.text = "Attempt to suppress the story"
  /\ stats # InitialStats
  /\ panel # None /\ panel.title = "Government Corruption Scandal"
\* C24: the load window lists every stored session exactly once, the session
\* saved or saved again last first and the others after it in the reverse
\* order of their last save.  (INSERT OR REPLACE deletes the row of the name
\* and inserts the new row at the end, so the rows of game_sessions stand in
\* the order of their last save.)
C24_ListMostRecentFirst ==
  [][LoadGameMenu =>
       /\ Len(listed') = Len(game_sessions)
       /\ \A i \in 1..Len(game_sessions) :
            listed'[i][1] = game_sessions[Len(game_sessions) + 1 - i].save_name]_vars

\* The part of C24 that the statement keeps: every stored session is listed
\* exactly once, and no row stands before a row with a later updated_at.
C24_ListByTimestamp ==
  [][LoadGameMenu =>
       /\ Len(listed') = Len(game_sessions)
       /\ \A r \in Range(game_sessions) :
            Cardinality({i \in 1..Len(listed') : listed'[i][1] = r.save_name}) = 1
       /\ \A i \in 1..(Len(listed') - 1) : listed'[i][4] >= listed'[i + 1][4]]_vars

\* Two sessions saved in different seconds and listed.
C24_Listed ==
  /\ op = "load_game_menu" /\ Len(listed) = 2
  /\ listed[1][4] > listed[2][4]
\* C25: game_sessions changes only in a step of the save handler with a
\* name: opening the setup window, starting a game, a decision (the one that
\* ends the run and records its score included), a drawn event, the list of
\* the load window, a load, a closed window and the return to the menu leave
\* every row as it is; and no step, a save included, removes a stored
\* save_name.
C25_OnlySaveChangesStore ==
  [][/\ (\/ NewGameSetup
         \/ \E p \in PlayerEntries, c \in CountryEntries : StartGame(p, c)
         \/ \E i \in 0..3 : MakeDecision(i)
         \/ LoadNextEvent
         \/ LoadGameMenu
         \/ \E n \in SaveEntries : LoadSelectedGame(n)
         \/ SaveGameDialog
         \/ SaveGame("")
         \/ CloseWindow
         \/ MainMenu) => game_sessions' = game_sessions
     /\ game_sessions' # game_sessions =>
          \E n \in SaveNames : SaveGame(n) /\ op' = "save_game"
     /\ \A r \in Range(game_sessions) :
          \E r2 \in Range(game_sessions') : r2.save_name = r.save_name]_vars

\* C25 witness: two sessions are stored, a game was started afresh after
\* them and played to its end, its score is recorded, and the two sessions
\* are there as saved.
C25_Witness ==
  /\ op = "make_decision" /\ phase = "Terminated" /\ Len(high_scores) = 1
  /\ Len(game_sessions) = 2
  /\ \A r \in Range(game_sessions) : r.current_turn = 1 /\ r.happiness = 30
  /\ current_turn = 3
\* C26: a stored session and a stored score hold values, not the run: in a
\* step that is not a save under its name (a decision, a start, a load, a
\* save under another name) the row of a session keeps its country, year,
\* turn and six stats, whatever the step does to the run in memory; and a
\* row of high_scores, once written, keeps every column in every step.
C26_StoredIsSnapshot ==
  [][/\ \A r \in Range(game_sessions) :
          ~ SaveGame(r.save_name) =>
            \E r2 \in Range(game_sessions') :
              /\ r2.save_name = r.save_name
              /\ r2.country_name = r.country_name
              /\ r2.current_year = r.current_year
              /\ r2.current_turn = r.current_turn
              /\ \A k \in SixStats : r2[k] = r[k]
     /\ \A i \in 1..Len(high_scores) :
          /\ i <= Len(high_scores')
          /\ high_scores'[i].years_survived = high_scores[i].years_survived
          /\ high_scores'[i].turns_survived = high_scores[i].turns_survived
          /\ \A c \in {"final_economy", "final_happiness", "final_stability",
                         "final_relations"} :
                high_scores'[i][c] = high_scores[i][c]]_vars

\* C26 witness: "alpha" was saved at turn 1 and "beta" at turn 2, a third
\* decision has changed the stats of the run, and the two rows are as saved.
C26_Witness ==
  /\ op = "make_decision" /\ current_turn = 3
  /\ Len(game_sessions) = 2
  /\ game_sessions[1].save_name = "alpha" /\ game_sessions[1].current_turn = 1
  /\ game_sessions[2].save_name = "beta" /\ game_sessions[2].current_turn = 2
  /\ game_sessions[1].happiness # game_sessions[2].happiness
  /\ stats.val["happiness"] # game_sessions[2].happiness
\* The number of rows of the sequence q that are equal to row.
Copies(q, row) == Cardinality({i \in 1..Len(q) : q[i] = row})

StoredLeaderRows == [i \in 1..Len(high_scores) |-> LeaderRow(high_scores[i])]

\* C27: get_leaderboard(n) returns min(n, number of rows of high_scores)
\* rows; they are rows of the table, none more often than the table holds
\* it; they come by years_survived descending, then turns_survived
\* descending; and every stored row that ranks strictly above a returned
\* row is returned too.
C27_TopN ==
  [][\A n \in Limits :
       GetLeaderboard(n) =>
         /\ Len(shown') = Min(n, Len(high_scores))
         /\ \A i \in 1..Len(shown') :
              Copies(shown', shown'[i]) <= Copies(StoredLeaderRows, shown'[i])
         /\ \A i \in 1..(Len(shown') - 1) : order_by_allows(shown'[i], shown'[i + 1])
         /\ \A i \in 1..Len(shown'), j \in 1..Len(high_scores) :
              ~ order_by_allows(shown'[i], StoredLeaderRows[j]) =>
                Copies(shown', StoredLeaderRows[j])
                  = Copies(StoredLeaderRows, StoredLeaderRows[j])]_vars

\* C27 witness: get_leaderboard(3) on five records, two of them better than
\* the other three, has returned three rows.
C27_Witness ==
  /\ op = "get_leaderboard" /\ Len(high_scores) = 5 /\ Len(shown) = 3
  /\ shown[1].turns_survived = 5 /\ shown[2].turns_survived = 4
  /\ shown[3].turns_survived = 3
  /\ high_scores[1].turns_survived = 3 /\ high_scores[5].turns_survived = 5
\* C28: a draw over a catalog that is not empty (by start_game or by the
\* timer) leaves as current event an event whose title, description and
\* options are those of a row of game_events; and whenever a timer is pending
\* its draw can return each row of game_events, whatever the current event,
\* the one drawn before, is.
C28_DrawFromCatalog ==
  [][/\ ((LoadNextEvent \/ \E p \in PlayerEntries, c \in CountryEntries : StartGame(p, c))
          /\ game_events # <<>>) =>
          \E r \in Range(game_events) :
            /\ current_event'.title = r.title
            /\ current_event'.description = r.description
            /\ json_dumps(current_event'.options) = r.options
     /\ (timers > 0 /\ game_events # <<>>) =>
          \A r \in Range(game_events) :
            ENABLED (LoadNextEvent /\ current_event'.title = r.title
                                   /\ json_dumps(current_event'.options) = r.options)]_vars

\* C28 witness: over the catalog of two events the run started with "Border
\* Dispute Escalation", and after the decision the timer has drawn it again.
C28_Witness ==
  /\ op = "load_next_event" /\ Len(game_events) = 2 /\ current_turn = 1
  /\ current_event.title = "Border Dispute Escalation"
  /\ stats.val["military_power"] # START_STAT
\* C29: apply_effects given a dict with the key "popularity", which is no
\* stat, raises no error and adds no entry to self.stats: the keys of
\* self.stats are the six stats as before, each stat that is a key of the
\* dict is moved by its change and clamped, and each other stat is as it was.
C29_UnknownKeyIgnored ==
  [][(ApplyEffects /\ HasKey(effects_arg, "popularity")) =>
       /\ error' = ""
       /\ stats'.keys = stats.keys
       /\ DOMAIN stats'.val = SixStats
       /\ \A stat \in SixStats :
            stats'.val[stat] = IF HasKey(effects_arg, stat)
                               THEN clamp(stats.val[stat] + effects_arg.val[stat])
                               ELSE stats.val[stat]]_vars

\* C29 witness: {"popularity": 101, "economy": -1} has been applied to an
\* economy of 50.
C29_Witness ==
  /\ op = "apply_effects"
  /\ effects_arg # None
  /\ effects_arg.keys = <<"popularity", "economy">>
  /\ effects_arg.val["popularity"] = 101 /\ effects_arg.val["economy"] = -1
  /\ stats.val["economy"] = 49
  /\ stats.val["happiness"] = 100

\* The dict `effects` with its items in the order q of their places.
Reordered(effects, q) ==
  [keys |-> [i \in 1..Len(effects.keys) |-> effects.keys[q[i]]], val |-> effects.val]

Orders(n) == {q \in [1..n -> 1..n] : \A i, j \in 1..n : q[i] = q[j] => i = j}

\* C30: apply_effects leaves self.stats as the same dict given to it with its
\* items in any other order would have left them.
C30_OrderIndependent ==
  [][ApplyEffects =>
       \A q \in Orders(Len(effects_arg.keys)) :
         stats' = apply_effects(stats, Reordered(effects_arg, q))]_vars

\* C30 witness: {"happiness": 1, "economy": -101} has been applied to an
\* economy of 50 and a happiness of 99, and both have moved.
C30_Witness ==
  /\ op = "apply_effects"
  /\ effects_arg # None
  /\ effects_arg.keys = <<"happiness", "economy">>
  /\ effects_arg.val["happiness"] = 1 /\ effects_arg.val["economy"] = -101
  /\ stats.val["economy"] = 0
  /\ stats.val["happiness"] = 100
  /\ stats.val["environment"] = 1
\* C31: a decision that is applied acts on an event that has had no option
\* applied since it was drawn: between two applied decisions there is a draw.
C31_DecideOnFreshEvent ==
  [][\A i \in 0..3 :
       (MakeDecision(i) /\ current_turn' = current_turn + 1) => ~ applied]_vars

\* Two decisions of a run have been applied and the draws of both are still
\* pending timers.
C31_TwoDecisionsNoDraw ==
  /\ op = "make_decision" /\ phase = "AwaitingDecision"
  /\ current_turn = 2 /\ timers = 2 /\ applied
\* C32: whenever the game screen shows an event and takes clicks, so that a
\* decision can be applied, each of the six stats is in 1..100.
C32_NoZeroWhenAwaiting ==
  (screen = "game" /\ RootClickable /\ current_event # None) =>
    \A k \in SixStats : stats.val[k] \in (STAT_MIN + 1)..STAT_MAX

\* A session saved after the end of its run has been loaded: a new event is
\* shown, the run awaits a decision, and happiness is 0.
C32_LoadedAtZero ==
  /\ op = "load_selected_game" /\ phase = "AwaitingDecision"
  /\ screen = "game" /\ RootClickable /\ current_event # None
  /\ stats.val["happiness"] = 0
\* C33: in every state current_year is 2024 plus the whole number of fours in
\* current_turn, in memory and in every stored session; and every record of
\* high_scores has years_survived equal to the whole number of fours in its
\* turns_survived, 0 for a run that ended before its fourth turn.
C33_YearFromTurn ==
  /\ current_year = 2024 + (current_turn \div 4)
  /\ \A r \in Range(game_sessions) : r.current_year = 2024 + (r.current_turn \div 4)
  /\ \A r \in Range(high_scores) :
       /\ r.years_survived = r.turns_survived \div 4
       /\ r.turns_survived < 4 => r.years_survived = 0

\* C33 witness: a session saved at turn 4, in 2025, has been loaded.
C33_Witness ==
  /\ op = "load_selected_game" /\ phase = "AwaitingDecision"
  /\ current_turn = 4 /\ current_year = 2025
  /\ game_sessions[1].current_turn = 4

\* A run that passed its fourth turn has ended and its record says 1 year.
C33_WitnessRecord ==
  /\ op = "make_decision" /\ phase = "Terminated" /\ current_turn = 5
  /\ high_scores[1].years_survived = 1 /\ high_scores[1].turns_survived = 5
\* C34: the record that a decision adds to high_scores carries the
\* country_name of the run that ended and the player_name that start_game
\* gave that run, for a run that was saved and loaded the player_name of the
\* start of the saved run.
C34_RecordNamesTheRun ==
  [][\A i \in 0..3 :
       (MakeDecision(i) /\ Len(high_scores') > Len(high_scores)) =>
         LET record == high_scores'[Len(high_scores')]
         IN  /\ record.country_name = country_name
             /\ record.player_name = started_by.run]_vars

\* The part of C34 that holds: the record carries the country_name of the
\* run and the player_name that is in memory.
C34_RecordNamesMemory ==
  [][\A i \in 0..3 :
       (MakeDecision(i) /\ Len(high_scores') > Len(high_scores)) =>
         LET record == high_scores'[Len(high_scores')]
         IN  /\ record.country_name = country_name
             /\ record.player_name = player_name]_vars

\* Ada's saved run was loaded after President had started a game, it has
\* ended, and the record names President.
C34_RecordOfAnother ==
  /\ op = "make_decision" /\ phase = "Terminated"
  /\ started_by.run = "Ada"
  /\ high_scores[Len(high_scores)].player_name = DEFAULT_PLAYER
====
